---- MODULE Spec2Model ----
(***************************************************************************)
(* Model of the carbon-emission pipeline:                                  *)
(*   - database/supabase_manager.py : batch uploads into the store and the *)
(*     per-provider / per-location metric tables (main runs the three      *)
(*     uploads in order);                                                  *)
(*   - database/realtime_monitor.py : the INSERT subscription handler,     *)
(*     which re-selects the whole cloud_emissions table and regroups it;   *)
(*   - database/dashboard_new.py    : check_alerts, run on every rerun of  *)
(*     the dashboard script;                                               *)
(*   - database/dashboard.py        : the polling loop that fills the      *)
(*     metrics and the chart container from a fresh select;                *)
(*   - data_collection/api_collector.py : collect_cloud_data over the      *)
(*     three provider APIs.                                                *)
(* Emissions are whole kilograms; a value rounded by .round(2) is kept in  *)
(* hundredths.                                                             *)
(***************************************************************************)
EXTENDS Integers, Sequences, FiniteSets, TLC

VARIABLES
    \* ---- supabase_manager.main and the store ----
    data,               \* the DataFrame read from the CSV file (main, line 75)
    pc,                 \* position of main: "emissions", "provider", "location", "done"
    cloud_emissions,    \* store table cloud_emissions: rows in insertion order
    provider_metrics,   \* store table provider_metrics
    location_metrics,   \* store table location_metrics
    results,            \* what the three uploads of the current run returned
    now,                \* datetime.now(), a logical clock
    failures,           \* store calls that have raised so far
    \* ---- realtime_monitor ----
    channel,            \* INSERT notifications not yet delivered to handle_broadcast
    df,                 \* the rows the axes were last drawn from (empty once cleared)
    provider_emissions, \* what axes[0,0] shows: provider -> summed emissions
    \* ---- dashboard_new.create_dashboard ----
    df_filtered,        \* the table the last run of the script filtered
    alerts,             \* what check_alerts returned in that run
    sidebar,            \* what the notification center then rendered
    evaluations,        \* runs of the script so far
    raised,             \* observer: per fixed-threshold rule, the alerts
                        \* rendered over all runs
    crossings,          \* observer: per fixed-threshold rule, the runs in which
                        \* its condition held and had not held in the run before
    \* ---- api_collector.collect_cloud_data ----
    responses,          \* what each provider's API answers during the batch
    json_error_caught,  \* whether the installed requests raises its JSON
                        \* decoding error as a RequestException
    cpc,                \* position of collect_cloud_data
    provider_data,      \* gcp_data, aws_data, azure_data
    combined_df,        \* the frame collect_cloud_data returns
    escaped,            \* the exception that left collect_cloud_data, or "none"
    requests,           \* per provider, the requests sent
    raw_dir,            \* the files under data/raw
    clock,              \* datetime.now() of the collector
    api_key,            \* per provider, what os.getenv gave for its API key
    sent_headers,       \* per provider, the headers of the requests sent
    invocations,        \* observer: calls of collect_cloud_data so far
    \* ---- realtime_monitor, statement by statement ----
    subscription,       \* "none", "subscribed", "down" (connection lost) or
                        \* "ended" (start_realtime_monitoring has returned)
    dispatch,           \* how the realtime client calls the callback:
                        \* "serial" or "threaded"
    handlers,           \* the calls of handle_broadcast under way: the line
                        \* each is at, its new_data and its df
    axes,               \* per panel of the figure, the plots drawn on it
                        \* since it was last cleared
    calls,              \* observer: the new_data of every call of
                        \* update_visualizations so far
    printed,            \* the kinds of message the monitor has printed
    missed,             \* observer: rows inserted while the subscription
                        \* was lost
    redelivered,        \* notifications delivered a second time so far
    \* ---- dashboard.create_dashboard, the polling loop ----
    poll,               \* position of the loop: "select", "metrics", "charts"
                        \* or "crashed"
    poll_df,            \* the df of the current pass
    metrics_placeholder,    \* what the metrics container shows
    chart_placeholder       \* what the chart container shows

pipelineVars == <<data, pc, cloud_emissions, provider_metrics, location_metrics,
                  results, now, failures, channel, df, provider_emissions>>

alertVars == <<df_filtered, alerts, sidebar, evaluations, raised, crossings>>

collectorVars == <<responses, json_error_caught, cpc, provider_data, combined_df,
                   escaped, requests, raw_dir, clock, api_key, sent_headers,
                   invocations>>

monitorVars == <<subscription, dispatch, handlers, axes, calls, printed, missed,
                 redelivered>>

pollVars == <<poll, poll_df, metrics_placeholder, chart_placeholder>>

vars == <<pipelineVars, alertVars, collectorVars, monitorVars, pollVars>>

\* ------------------------------------------------------------------ bounds
MaxStore == 3       \* rows the cloud_emissions table may hold
MaxInvocations == 2 \* calls of collect_cloud_data in a row
MaxBatch == 2       \* rows in the CSV file
MaxFailures == 1    \* store calls that may raise in one behaviour

\* ------------------------------------------------------------ input space
Providers == {"A", "B"}
Locations == {"X", "Y"}
ObservedTimes == {1, 2}

\* One observation per (provider, location, time): what was measured there.
ObservedEmissions(p, l, t) ==
    100 * t + (IF p = "B" THEN 50 ELSE 0) + (IF l = "Y" THEN 25 ELSE 0)

\* Every provider at every location at time 1, and provider A at X again at
\* time 2.
RecordSpace ==
    { r \in { [cloud_service_provider |-> p, location |-> l, observed_at |-> t,
               total_emissions |-> ObservedEmissions(p, l, t)] :
                p \in Providers, l \in Locations, t \in ObservedTimes } :
        r.observed_at = 1 \/ (r.cloud_service_provider = "A" /\ r.location = "X") }

SeqsUpTo(S, n) == UNION { [1..k -> S] : k \in 1..n }

DataFrames == SeqsUpTo(RecordSpace, MaxBatch)

\* The composite key identifying an emission record.
Key(r) == <<r.cloud_service_provider, r.observed_at, r.location>>

Keys(rows) == { Key(rows[i]) : i \in DOMAIN rows }

\* --------------------------------------------------------- pandas helpers
\* Series.sum() over the rows of a frame, in row order.
RECURSIVE SumEmissions(_)
SumEmissions(rows) ==
    IF rows = <<>> THEN 0
    ELSE Head(rows).total_emissions + SumEmissions(Tail(rows))

\* numpy's round-half-even of num/den to two decimals, in hundredths.
Round2(num, den) ==
    LET scaled == 100 * num
        q == scaled \div den
        r == scaled % den
    IN  IF 2 * r > den \/ (2 * r = den /\ q % 2 = 1) THEN q + 1 ELSE q

Rows(rows, col, v) == SelectSeq(rows, LAMBDA r : r[col] = v)

GroupKeys(rows, col) == { rows[i][col] : i \in DOMAIN rows }

\* A mutated grouping: the group is averaged, not summed (agg 'mean').
GroupSumAsMean(rows, col) ==
    [ v \in GroupKeys(rows, col) |->
        SumEmissions(Rows(rows, col, v)) \div Len(Rows(rows, col, v)) ]

\* A mutated grouping: the group keeps its last row's value (agg 'last').
GroupSumLast(rows, col) ==
    [ v \in GroupKeys(rows, col) |->
        LET g == Rows(rows, col, v) IN g[Len(g)].total_emissions ]

\* df.groupby(col)['total_emissions'].sum()
GroupSum(rows, col) ==
    [ v \in GroupKeys(rows, col) |-> SumEmissions(Rows(rows, col, v)) ]

\* df.groupby(col).size()
GroupSize(rows, col) ==
    [ v \in GroupKeys(rows, col) |-> Len(Rows(rows, col, v)) ]

\* df.groupby(col).agg({'Total Emissions': 'mean'}).round(2), in hundredths
GroupMean(rows, col) ==
    [ v \in GroupKeys(rows, col) |->
        Round2(SumEmissions(Rows(rows, col, v)), Len(Rows(rows, col, v))) ]

\* df.groupby(['Location', 'Cloud Service Provider']).size()
provider_loc_count(rows) ==
    LET pairs == { <<rows[i].location, rows[i].cloud_service_provider>> :
                     i \in DOMAIN rows }
    IN  [ lp \in pairs |->
            Len(SelectSeq(rows, LAMBDA r :
                    r.location = lp[1] /\ r.cloud_service_provider = lp[2])) ]

\* ---------------------------------------------------- supabase_manager.py
\* upload_emissions_data, lines 17-21: every record is stamped uploaded_at.
StampUploaded(rows, t) ==
    [ i \in DOMAIN rows |->
        [cloud_service_provider |-> rows[i].cloud_service_provider,
         location |-> rows[i].location,
         observed_at |-> rows[i].observed_at,
         total_emissions |-> rows[i].total_emissions,
         uploaded_at |-> t] ]

\* upload_provider_metrics, lines 33-43: one record per provider.
ProviderMetricRecords(rows, t) ==
    LET m == GroupSum(rows, "cloud_service_provider")
    IN  { [provider |-> p, total_emissions |-> m[p], calculated_at |-> t] :
            p \in DOMAIN m }

\* upload_location_metrics, lines 55-63: one record per location.
LocationMetricRecords(rows, t) ==
    LET m == GroupMean(rows, "location")
    IN  { [location |-> l, mean_emissions |-> m[l], calculated_at |-> t] :
            l \in DOMAIN m }

\* One INSERT notification per inserted row (payload['new'] is the row).
Payloads(rows) == [ i \in DOMAIN rows |-> [new |-> rows[i]] ]

MayFail == failures < MaxFailures

\* upload_emissions_data(data): one batch insert; an exception is caught and
\* None is returned.
UploadEmissionsData ==
    /\ pc = "emissions"
    /\ \E ok \in BOOLEAN :
        /\ ok \/ MayFail
        /\ IF ok
           THEN /\ cloud_emissions' = cloud_emissions \o StampUploaded(data, now)
                /\ channel' = channel \o Payloads(StampUploaded(data, now))
                /\ failures' = failures
           ELSE /\ UNCHANGED <<cloud_emissions, channel>>
                /\ failures' = failures + 1
        /\ results' = <<IF ok THEN "result" ELSE "None">>
    /\ now' = now + 1
    /\ pc' = "provider"
    /\ UNCHANGED <<data, provider_metrics, location_metrics, df, provider_emissions>>
    /\ UNCHANGED <<alertVars, pollVars, collectorVars, monitorVars>>

\* upload_provider_metrics with the insert outside its try: a failing
\* insert raises out of the function and main stops there.
UploadProviderMetricsUnguarded ==
    /\ pc = "provider"
    /\ \E ok \in BOOLEAN :
        /\ ok \/ MayFail
        /\ IF ok
           THEN /\ provider_metrics' =
                      provider_metrics \cup ProviderMetricRecords(data, now)
                /\ failures' = failures
                /\ results' = Append(results, "result")
                /\ pc' = "location"
           ELSE /\ UNCHANGED <<provider_metrics, results>>
                /\ failures' = failures + 1
                /\ pc' = "done"
    /\ now' = now + 1
    /\ UNCHANGED <<data, cloud_emissions, location_metrics, channel, df,
                   provider_emissions>>
    /\ UNCHANGED <<alertVars, pollVars, collectorVars, monitorVars>>

\* upload_provider_metrics(data)
UploadProviderMetrics ==
    /\ pc = "provider"
    /\ \E ok \in BOOLEAN :
        /\ ok \/ MayFail
        /\ IF ok
           THEN /\ provider_metrics' =
                      provider_metrics \cup ProviderMetricRecords(data, now)
                /\ failures' = failures
           ELSE /\ UNCHANGED provider_metrics
                /\ failures' = failures + 1
        /\ results' = Append(results, IF ok THEN "result" ELSE "None")
    /\ now' = now + 1
    /\ pc' = "location"
    /\ UNCHANGED <<data, cloud_emissions, location_metrics, channel, df,
                   provider_emissions>>
    /\ UNCHANGED <<alertVars, pollVars, collectorVars, monitorVars>>

\* upload_location_metrics(data)
UploadLocationMetrics ==
    /\ pc = "location"
    /\ \E ok \in BOOLEAN :
        /\ ok \/ MayFail
        /\ IF ok
           THEN /\ location_metrics' =
                      location_metrics \cup LocationMetricRecords(data, now)
                /\ failures' = failures
           ELSE /\ UNCHANGED location_metrics
                /\ failures' = failures + 1
        /\ results' = Append(results, IF ok THEN "result" ELSE "None")
    /\ now' = now + 1
    /\ pc' = "done"
    /\ UNCHANGED <<data, cloud_emissions, provider_metrics, channel, df,
                   provider_emissions>>
    /\ UNCHANGED <<alertVars, pollVars, collectorVars, monitorVars>>

\* The script is run again on the same CSV file.
RunMain ==
    /\ pc = "done"
    /\ Len(cloud_emissions) + Len(data) <= MaxStore
    /\ pc' = "emissions"
    /\ results' = <<>>
    /\ UNCHANGED <<data, cloud_emissions, provider_metrics, location_metrics,
                   now, failures, channel, df, provider_emissions>>
    /\ UNCHANGED <<alertVars, pollVars, collectorVars, monitorVars>>

\* ---------------------------------------------------- realtime_monitor.py
\* Cleared axes: no bar is drawn.
NoBars == [ v \in {} |-> 0 ]

\* update_visualizations: the axes are cleared, then the whole table is
\* selected and regrouped; a select that raises leaves the axes cleared.
UpdateVisualizations(ok) ==
    IF ok
    THEN /\ df' = cloud_emissions
         /\ provider_emissions' = GroupSum(cloud_emissions, "cloud_service_provider")
         /\ failures' = failures
    ELSE /\ df' = <<>>
         /\ provider_emissions' = NoBars
         /\ failures' = failures + 1

\* handle_broadcast(payload) for the next notification of the channel.
HandleBroadcast ==
    /\ channel # <<>>
    /\ channel' = Tail(channel)
    /\ \E ok \in BOOLEAN :
        /\ ok \/ MayFail
        /\ UpdateVisualizations(ok)
    /\ UNCHANGED <<data, pc, cloud_emissions, provider_metrics, location_metrics,
                   results, now>>
    /\ UNCHANGED <<alertVars, pollVars, collectorVars, monitorVars>>

\* At-least-once delivery: the channel hands the notification of a stored
\* row to the handler again (update_visualizations does not read it).
Redeliver ==
    /\ cloud_emissions # <<>>
    /\ \E ok \in BOOLEAN :
        /\ ok \/ MayFail
        /\ UpdateVisualizations(ok)
    /\ UNCHANGED <<data, pc, cloud_emissions, provider_metrics, location_metrics,
                   results, now, channel>>
    /\ UNCHANGED <<alertVars, pollVars, collectorVars, monitorVars>>

\* ------------------------------------------------- aggregates, C1 .. C4
\* Every aggregate a reader of the table derives: per provider, per
\* location and global.
Aggregates(rows) ==
    [ count       |-> Len(rows),
      sum         |-> SumEmissions(rows),
      by_provider |-> GroupSum(rows, "cloud_service_provider"),
      by_location |-> GroupSum(rows, "location"),
      mean_by_loc |-> GroupMean(rows, "location"),
      n_provider  |-> GroupSize(rows, "cloud_service_provider"),
      n_location  |-> GroupSize(rows, "location"),
      n_pair      |-> provider_loc_count(rows) ]

DistinctKeys(rows) == \A i, j \in DOMAIN rows : Key(rows[i]) = Key(rows[j]) => i = j

RowSet(rows) == { rows[i] : i \in DOMAIN rows }

\* The sum recomputed from scratch over a set of records.
RECURSIVE SetSum(_)
SetSum(S) ==
    IF S = {} THEN 0
    ELSE LET r == CHOOSE x \in S : TRUE
         IN  r.total_emissions + SetSum(S \ {r})

Permute(rows, p) == [ i \in DOMAIN rows |-> rows[p[i]] ]

\* C1: delivering a record whose composite key was already delivered leaves
\* every aggregate (count and summed emissions per provider, per location
\* and global) as it was after the first delivery.
C1_IdempotentRedelivery ==
    [][ (cloud_emissions' # cloud_emissions
            /\ Keys(cloud_emissions') = Keys(cloud_emissions))
        => Aggregates(cloud_emissions') = Aggregates(cloud_emissions) ]_vars

\* C2: in every reachable state each bucket's count (per provider, per
\* location, per location and provider, global) is the number of distinct
\* composite keys that contributed to it, also when the rows of the CSV file
\* are pairwise distinct.
C2_CountIsDistinctKeys ==
    DistinctKeys(data) =>
        LET a == Aggregates(cloud_emissions)
            keysOf(col, v) == Keys(Rows(cloud_emissions, col, v))
        IN  /\ a.count = Cardinality(Keys(cloud_emissions))
            /\ \A p \in DOMAIN a.n_provider :
                 a.n_provider[p] = Cardinality(keysOf("cloud_service_provider", p))
            /\ \A l \in DOMAIN a.n_location :
                 a.n_location[l] = Cardinality(keysOf("location", l))
            /\ \A lp \in DOMAIN a.n_pair :
                 a.n_pair[lp] =
                    Cardinality(Keys(SelectSeq(cloud_emissions, LAMBDA r :
                        r.location = lp[1] /\ r.cloud_service_provider = lp[2])))

\* The number of rows of provider P, from the (location, provider) sizes.
ProviderCount(rows, P) ==
    LET n == provider_loc_count(rows)
        at(l) == IF <<l, P>> \in DOMAIN n THEN n[<<l, P>>] ELSE 0
    IN  at("X") + at("Y")

\* C3: once a set of records (pairwise distinct keys) has been delivered, the
\* aggregate of every provider P reports as count the number of records of P
\* and as sum the sum of their emissions recomputed from scratch, so sum/count
\* is the mean over the same records; the provider_metrics and
\* location_metrics rows computed from a set of records agree with it too.
C3_ProviderAggregate ==
    /\ DistinctKeys(df) =>
         \A P \in Providers :
            LET S == { r \in RowSet(df) : r.cloud_service_provider = P }
            IN  IF S = {} THEN P \notin DOMAIN provider_emissions
                ELSE /\ P \in DOMAIN provider_emissions
                     /\ provider_emissions[P] = SetSum(S)
                     /\ ProviderCount(df, P) = Cardinality(S)
                     /\ Round2(provider_emissions[P], ProviderCount(df, P))
                          = Round2(SetSum(S), Cardinality(S))
    /\ DistinctKeys(data) =>
         /\ \A m \in provider_metrics :
              m.total_emissions =
                 SetSum({ r \in RowSet(data) : r.cloud_service_provider = m.provider })
         /\ \A m \in location_metrics :
              LET S == { r \in RowSet(data) : r.location = m.location }
              IN  m.mean_emissions = Round2(SetSum(S), Cardinality(S))

\* Records of 100 kg and 200 kg of provider A were delivered once each and the
\* monitor shows count 2, sum 300, mean 150.00 for A.
C3_Witness ==
    /\ Len(df) = 2 /\ DistinctKeys(df)
    /\ \A i \in DOMAIN df : df[i].cloud_service_provider = "A" /\ df[i].location = "X"
    /\ { df[i].total_emissions : i \in DOMAIN df } = {100, 200}
    /\ provider_emissions["A"] = 300
    /\ ProviderCount(df, "A") = 2
    /\ Round2(provider_emissions["A"], ProviderCount(df, "A")) = 15000
    /\ \E m \in provider_metrics : m.provider = "A" /\ m.total_emissions = 300

EmissionValues == {0 - 100, 0, 100, 300, 400}
RenewableValues == {29, 30}
PueValues == {180, 181}

\* A facility at 100 kg, 30 % and PUE 1.80, or one that differs from it in
\* one column.
FacilitySpace ==
    { f \in [total_emissions : EmissionValues, renewable : RenewableValues,
              pue : PueValues] :
        Cardinality({ c \in {"e", "r", "u"} :
            \/ c = "e" /\ f.total_emissions # 100
            \/ c = "r" /\ f.renewable # 30
            \/ c = "u" /\ f.pue # 180 }) <= 1 }

MaxFacilities == 2      \* rows of the filtered table
MaxEvaluations == 3     \* runs of the dashboard script

\* check_alerts filters, counts and averages the rows, so the tables are
\* drawn in one row order.
Rank(f) == 1000000 * f.total_emissions + 1000 * f.renewable + f.pue

FacilityFrames ==
    {<<>>} \cup { t \in SeqsUpTo(FacilitySpace, MaxFacilities) :
                    \A i \in 1..(Len(t) - 1) : Rank(t[i]) <= Rank(t[i + 1]) }

RenewableThreshold == 30
PueThreshold == 180

Rules == {"critical", "warning", "info"}

\* The rules whose threshold is a fixed number.
FixedRules == {"warning", "info"}

\* A mutated emissions check: half the mean as threshold, 2 n e > sum.
high_emitters_half(t) ==
    SelectSeq(t, LAMBDA f : 2 * Len(t) * f.total_emissions > SumEmissions(t))

\* check_alerts, lines 283-284: emissions > mean * 1.5, i.e. 2 n e > 3 sum.
\* On an empty table the mean is NaN and nothing compares greater.
high_emitters(t) ==
    SelectSeq(t, LAMBDA f : 2 * Len(t) * f.total_emissions > 3 * SumEmissions(t))

\* line 294
low_renewable(t) == SelectSeq(t, LAMBDA f : f.renewable < RenewableThreshold)

\* A mutated PUE check: >= instead of >.
inefficient_geq(t) == SelectSeq(t, LAMBDA f : f.pue >= PueThreshold)

\* line 303: PUE > 1.8
inefficient(t) == SelectSeq(t, LAMBDA f : f.pue > PueThreshold)

\* check_alerts with its three checks in the opposite order.
check_alerts_reversed(t) ==
    (IF inefficient(t) # <<>>
        THEN << [level |-> "info", facilities |-> Len(inefficient(t))] >>
        ELSE <<>>)
    \o (IF low_renewable(t) # <<>>
        THEN << [level |-> "warning", facilities |-> Len(low_renewable(t))] >>
        ELSE <<>>)
    \o (IF high_emitters(t) # <<>>
        THEN << [level |-> "critical", facilities |-> Len(high_emitters(t))] >>
        ELSE <<>>)

\* check_alerts(df): the alerts in the order they are appended.
check_alerts(t) ==
    (IF high_emitters(t) # <<>>
        THEN << [level |-> "critical", facilities |-> Len(high_emitters(t))] >>
        ELSE <<>>)
    \o (IF low_renewable(t) # <<>>
        THEN << [level |-> "warning", facilities |-> Len(low_renewable(t))] >>
        ELSE <<>>)
    \o (IF inefficient(t) # <<>>
        THEN << [level |-> "info", facilities |-> Len(inefficient(t))] >>
        ELSE <<>>)

Levels(as) == { as[i].level : i \in DOMAIN as }

\* create_dashboard, lines 1101-1171: one card per alert, or the notice.
Render(as) ==
    IF as # <<>> THEN [ i \in DOMAIN as |-> as[i].level ]
    ELSE << "All systems operating within normal parameters" >>

\* The rule's condition as the rule is declared: some facility is strictly
\* beyond the threshold.
Beyond(rule, t) ==
    CASE rule = "critical" ->
            \E i \in DOMAIN t : 2 * Len(t) * t[i].total_emissions > 3 * SumEmissions(t)
      [] rule = "warning" -> \E i \in DOMAIN t : t[i].renewable < RenewableThreshold
      [] rule = "info" -> \E i \in DOMAIN t : t[i].pue > PueThreshold

\* Some facility is exactly at the rule's threshold and none is beyond it.
AtThreshold(rule, t) ==
    /\ ~Beyond(rule, t)
    /\ CASE rule = "critical" ->
              \E i \in DOMAIN t : 2 * Len(t) * t[i].total_emissions = 3 * SumEmissions(t)
         [] rule = "warning" -> \E i \in DOMAIN t : t[i].renewable = RenewableThreshold
         [] rule = "info" -> \E i \in DOMAIN t : t[i].pue = PueThreshold

\* One run of the dashboard script over the table as it is then.
CreateDashboard ==
    /\ evaluations < MaxEvaluations
    /\ \E t \in FacilityFrames :
        LET as == check_alerts(t) IN
        /\ df_filtered' = t
        /\ alerts' = as
        /\ sidebar' = Render(as)
        /\ raised' = [ r \in FixedRules |->
                        raised[r] + Cardinality({ i \in DOMAIN as : as[i].level = r }) ]
        /\ crossings' = [ r \in FixedRules |->
                        IF Beyond(r, t) /\ ~Beyond(r, df_filtered)
                        THEN crossings[r] + 1 ELSE crossings[r] ]
    /\ evaluations' = evaluations + 1
    /\ UNCHANGED <<pipelineVars, collectorVars, monitorVars, pollVars>>

\* ------------------------------------------------------- api_collector.py
Sources == <<"GCP", "AWS", "Azure">>

SourceSet == { Sources[i] : i \in DOMAIN Sources }

\* The metrics of a provider's payload; each provider names them its own
\* way (energy_kwh / energy_consumption / energy_usage, ...).
Metrics == {"energy", "carbon", "network"}

MetricValues == {7}

JsonObjects == { [type |-> "object", fields |-> f] :
                   f \in UNION { [K -> MetricValues] : K \in SUBSET Metrics } }

JsonBodies ==
    JsonObjects \cup { [type |-> "array", items |-> n] : n \in {0, 1} }
                \cup { [type |-> "null"] }

Responses ==
    { [kind |-> "timeout"], [kind |-> "connection_error"],
      [kind |-> "http_error", status |-> 401],
      [kind |-> "http_error", status |-> 500],
      [kind |-> "malformed_json"] }
    \cup { [kind |-> "json", body |-> b] : b \in JsonBodies }

\* The answers a service gives from one call of collect_cloud_data to the
\* next: none, every metric, or one metric only.
RestartResponses ==
    { [kind |-> "connection_error"],
      [kind |-> "json", body |-> [type |-> "object", fields |-> [ m \in Metrics |-> 7 ]]],
      [kind |-> "json", body |-> [type |-> "object", fields |-> [ m \in {"carbon"} |-> 7 ]]] }

None == [type |-> "None"]

\* os.getenv of a variable that is not set gives None; a variable set to
\* nothing gives the empty string.
Unset == "<None>"
KeyValues == {Unset, "", "secret"}

\* str(key) inside the f-string of the Authorization header.
Str(k) == IF k = Unset THEN "None" ELSE k

\* The credential headers of collect_gcp_data, collect_aws_data and
\* collect_azure_data as requests puts them on the wire: a header whose
\* value is None is left out of the request.
Headers(s, k) ==
    IF s = "AWS"
    THEN IF k = Unset THEN << >> ELSE << <<"x-api-key", k>> >>
    ELSE << <<"Authorization", "Bearer", Str(k)>> >>

\* _make_api_request, lines 38-44: the parsed body, or None once a
\* RequestException was caught; any other exception leaves the function.
\* requests.get is given no timeout, so with a server that accepts the
\* connection and never answers the call does not return.
make_api_request(resp, caught) ==
    CASE resp.kind \in {"timeout", "connection_error", "http_error"} ->
            [data |-> None, exc |-> "none"]
      [] resp.kind = "no_response" -> [data |-> None, exc |-> "hangs"]
      [] resp.kind = "malformed_json" ->
            IF caught THEN [data |-> None, exc |-> "none"]
            ELSE [data |-> None, exc |-> "ValueError"]
      [] resp.kind = "json" -> [data |-> resp.body, exc |-> "none"]

\* Python's truth value of the parsed body.
Truthy(d) ==
    CASE d.type = "None" -> FALSE
      [] d.type = "object" -> DOMAIN d.fields # {}
      [] d.type = "array" -> d.items > 0
      [] d.type = "null" -> FALSE

\* data.get(key, 0)
Get(d, k) == IF k \in DOMAIN d.fields THEN d.fields[k] ELSE 0

\* collect_gcp_data / collect_aws_data / collect_azure_data, lines 46-110:
\* a one-row frame when the body is truthy, else an empty frame; .get on a
\* body that is no object raises AttributeError.
collect_provider_data(s, resp, caught, t) ==
    LET r == make_api_request(resp, caught)
    IN  IF r.exc # "none" THEN [frame |-> <<>>, exc |-> r.exc]
        ELSE IF ~Truthy(r.data) THEN [frame |-> <<>>, exc |-> "none"]
        ELSE IF r.data.type # "object" THEN [frame |-> <<>>, exc |-> "AttributeError"]
        ELSE [frame |-> << [timestamp |-> t, provider |-> s,
                            energy_consumption |-> Get(r.data, "energy"),
                            carbon_emissions |-> Get(r.data, "carbon"),
                            data_transfer |-> Get(r.data, "network")] >>,
              exc |-> "none"]

\* One of the three calls of collect_cloud_data, lines 121-123.
CollectStep(s, next) ==
    /\ LET r == collect_provider_data(s, responses[s], json_error_caught, clock)
       IN  /\ provider_data' = [provider_data EXCEPT ![s] = r.frame]
           /\ escaped' = IF r.exc = "hangs" THEN "none" ELSE r.exc
           /\ cpc' = CASE r.exc = "none" -> next
                        [] r.exc = "hangs" -> "hung"
                        [] OTHER -> "raised"
    /\ requests' = [requests EXCEPT ![s] = @ + 1]
    /\ sent_headers' = [sent_headers EXCEPT ![s] = Append(@, Headers(s, api_key[s]))]
    /\ clock' = clock + 1
    /\ UNCHANGED <<responses, json_error_caught, combined_df, raw_dir, api_key,
                   invocations>>
    /\ UNCHANGED <<pipelineVars, alertVars, pollVars, monitorVars>>

CollectGcpData ==
    /\ cpc = "GCP"
    /\ CollectStep("GCP", "AWS")

CollectAwsData ==
    /\ cpc = "AWS"
    /\ CollectStep("AWS", "Azure")

CollectAzureData ==
    /\ cpc = "Azure"
    /\ CollectStep("Azure", "concat")

\* A cache in front of the concatenation: the rows of a file written by an
\* earlier call, when there is one.
ConcatCached(frames) ==
    IF raw_dir # {} THEN (CHOOSE f \in raw_dir : TRUE).rows
    ELSE frames["GCP"] \o frames["AWS"] \o frames["Azure"]

\* pd.concat(dfs, ignore_index=True)
Concat(frames) == frames["GCP"] \o frames["AWS"] \o frames["Azure"]

\* collect_cloud_data, lines 126-134: concatenate, save when not empty, return.
CollectCloudData ==
    /\ cpc = "concat"
    /\ combined_df' = Concat(provider_data)
    /\ raw_dir' = IF Concat(provider_data) # <<>>
                  THEN raw_dir \cup { [source_name |-> "all_providers",
                                       timestamp |-> clock,
                                       rows |-> Concat(provider_data)] }
                  ELSE raw_dir
    /\ cpc' = "done"
    /\ clock' = clock + 1
    /\ UNCHANGED <<responses, json_error_caught, provider_data, escaped, requests,
                   api_key, sent_headers, invocations>>
    /\ UNCHANGED <<pipelineVars, alertVars, pollVars, monitorVars>>

\* A further call of collect_cloud_data, lines 112-125, once the one before
\* is over: its locals are new, the services answer anew, and the files
\* written so far stay where they are.
CallCollectCloudData ==
    /\ cpc \in {"done", "raised"}
    /\ invocations < MaxInvocations
    /\ invocations' = invocations + 1
    /\ responses' \in [ SourceSet -> RestartResponses ]
    /\ cpc' = "GCP"
    /\ provider_data' = [ s \in SourceSet |-> <<>> ]
    /\ combined_df' = <<>>
    /\ escaped' = "none"
    /\ clock' = clock + 1
    /\ UNCHANGED <<json_error_caught, requests, raw_dir, api_key, sent_headers>>
    /\ UNCHANGED <<pipelineVars, alertVars, pollVars, monitorVars>>

\* What a call of collect_cloud_data gives its caller for the answers resp.
RECURSIVE CollectFrom(_, _, _, _)
CollectFrom(i, resp, caught, acc) ==
    IF i > Len(Sources) THEN [exc |-> "none", df |-> acc]
    ELSE LET r == collect_provider_data(Sources[i], resp[Sources[i]], caught, 0)
         IN  IF r.exc # "none" THEN [exc |-> r.exc, df |-> <<>>]
             ELSE CollectFrom(i + 1, resp, caught, acc \o r.frame)

\* ------------------------------------------------------- alerts, C5 .. C7
\* C5: in no run of the script is an alert of a rule rendered when the rule's
\* condition already held in the run before; an alert is rendered only in a
\* run in which the condition holds and did not hold in the run before.
C5_EdgeTriggered ==
    [][ evaluations' = evaluations + 1 =>
          \A r \in Rules :
             r \in Levels(alerts') =>
                ~Beyond(r, df_filtered) /\ Beyond(r, df_filtered') ]_vars

\* C6: over any sequence of runs a rule with a fixed threshold has produced exactly one alert per
\* upward crossing of its threshold: two for below, above, below, above and
\* one for a metric that crosses once and stays above.
C6_OneAlertPerCrossing ==
    \A r \in FixedRules : raised[r] = crossings[r]

Failed(s) ==
    IF responses[s].kind # "json" THEN TRUE
    ELSE responses[s].body.type # "object"

\* The provider answered with a JSON object that carries a metric.
HasData(s) ==
    /\ ~Failed(s)
    /\ DOMAIN responses[s].body.fields # {}

ProvidersIn(frame) == { frame[i].provider : i \in DOMAIN frame }

\* The entries of a returned frame that report an error of a source.
ErrorSources(frame) ==
    { frame[i].provider : i \in { j \in DOMAIN frame : "error" \in DOMAIN frame[j] } }

Finished == cpc \in {"done", "raised"}

\* C8: whatever the other sources do (timeout, HTTP error, malformed or
\* non-object body, auth failure), every source that answered with data
\* has its record in the result of the batch; stated for the builds whose
\* requests raises its JSON decoding error as a RequestException.
C8_PerSourceIsolation ==
    (Finished /\ json_error_caught) => \A s \in SourceSet : HasData(s) => s \in ProvidersIn(combined_df)

\* C9: the result of a returned batch holds one error per failed source,
\* naming it, and one record batch per source that did not fail.
C9_ErrorAccounting ==
    (cpc = "done" /\ \A s \in SourceSet : Failed(s) \/ HasData(s)) =>
        /\ ErrorSources(combined_df) = { s \in SourceSet : Failed(s) }
        /\ ProvidersIn(combined_df) \ ErrorSources(combined_df)
              = { s \in SourceSet : ~Failed(s) }

\* Every source answers successfully with nothing to report.
NoNewData ==
    [ SourceSet -> { [kind |-> "json", body |-> [type |-> "object", fields |-> <<>>]],
                     [kind |-> "json", body |-> [type |-> "array", items |-> 0]] } ]

\* C10: when every source has failed and the call returns, what the caller
\* gets differs from what it gets when every source succeeded with no new
\* data.
C10_TotalFailureDistinct ==
    (cpc = "done" /\ \A s \in SourceSet : responses[s].kind # "json") =>
        \A quiet \in NoNewData :
            CollectFrom(1, quiet, json_error_caught, <<>>)
                # [exc |-> escaped, df |-> combined_df]

\* ----------------------------------------------- collector, C11 .. C13
\* A failure of the network itself, as opposed to an answer of the API.
Transient(resp) == resp.kind \in {"timeout", "connection_error"}

\* An answer that will be the same when asked again: an HTTP error status
\* or a body that is not the expected JSON object.
NonTransient(resp) ==
    \/ resp.kind \in {"http_error", "malformed_json"}
    \/ resp.kind = "json" /\ resp.body.type # "object"

\* The call of collect_cloud_data for source s is behind the batch.
Collected(s) == requests[s] > 0

\* C11: once a source has been collected in a batch, it was asked more than
\* once exactly when its failure was transient (timeout, connection error),
\* and exactly once when its failure was non-transient (HTTP error status,
\* malformed body).
C11_RetryPolicy ==
    \A s \in SourceSet : Collected(s) =>
        /\ Transient(responses[s]) <=> requests[s] > 1
        /\ NonTransient(responses[s]) => requests[s] = 1

\* The provider's API key is absent from the environment, or empty.
KeyMissing(s) == api_key[s] \in {Unset, ""}

\* C12: for a provider whose API key is absent or empty no request is ever
\* sent, and a finished batch reports a ConfigurationError for it.
C12_CredentialValidation ==
    \A s \in SourceSet : KeyMissing(s) =>
        /\ sent_headers[s] = <<>>
        /\ Finished => \/ escaped = "ConfigurationError"
                       \/ s \in ErrorSources(combined_df)

\* The declared range of the numeric fields of a collected record: energy,
\* emissions and transfer volumes are not negative.
InRange(rec) ==
    /\ rec.energy_consumption >= 0
    /\ rec.carbon_emissions >= 0
    /\ rec.data_transfer >= 0

\* The provider's payload carries a numeric field outside its range.
OutOfRange(s) ==
    /\ responses[s].kind = "json"
    /\ responses[s].body.type = "object"
    /\ \E m \in DOMAIN responses[s].body.fields : responses[s].body.fields[m] < 0

\* C13: no record of the returned frame and no record of a saved raw file
\* has a numeric field outside its range, and a returned batch reports an
\* error for every source whose payload had one.
C13_RangeValidation ==
    /\ \A i \in DOMAIN combined_df : InRange(combined_df[i])
    /\ \A f \in raw_dir : \A i \in DOMAIN f.rows : InRange(f.rows[i])
    /\ cpc = "done" =>
          \A s \in SourceSet : OutOfRange(s) => s \in ErrorSources(combined_df)

\* ------------------------------- realtime_monitor.py, statement by statement
\* The monitor once more, now with start_realtime_monitoring's subscription
\* and with update_visualizations as the statements it runs in order, so
\* that what lies between two statements of one update can be looked at.
MaxInserts == 2        \* rows written while the monitor runs
MaxHandlers == 2       \* calls of handle_broadcast that may be under way
MaxRedeliveries == 1   \* notifications the channel delivers a second time

\* A row whose emissions are below zero.
NegativeRecord ==
    [cloud_service_provider |-> "A", location |-> "Y", observed_at |-> 2,
     total_emissions |-> 0 - 40]

MonitorRecords ==
    { r \in RecordSpace : r.location = "X" /\ r.observed_at = 1 }
        \cup {NegativeRecord}

Slots == 1..MaxHandlers

Idle == [line |-> "idle", new_data |-> <<>>, df |-> <<>>]

Panels == {"provider", "trend", "workload", "renewable"}

ClearedAxes == [ p \in Panels |-> <<>> ]

\* The bars of the newest row alone, as a monitor would draw that went by
\* the notification and not by the table.
ProviderBarsOfNewest(rows) ==
    GroupSum(SubSeq(rows, Len(rows), Len(rows)), "cloud_service_provider")

\* Lines 65-66: the bars of axes[0,0].
ProviderBars(rows) == GroupSum(rows, "cloud_service_provider")

\* Lines 71-73: the line of axes[0,1], the mean of every hour of uploaded_at
\* kept as the sum and the number of its rows.
TrendLine(rows) ==
    [ t \in GroupKeys(rows, "uploaded_at") |->
        << SumEmissions(Rows(rows, "uploaded_at", t)),
           Len(Rows(rows, "uploaded_at", t)) >> ]

\* Lines 77-89: the points of a scatter plot, one per row.
ScatterPoints(rows) == { rows[i] : i \in DOMAIN rows }

\* The rows of either provider at one location and time.
ProviderRecords ==
    { r \in RecordSpace : r.location = "X" /\ r.observed_at = 1 }

\* The k-th row of a file a writer uploads row by row, the providers
\* taking turns.
FileRow(k) ==
    [cloud_service_provider |-> IF k % 2 = 1 THEN "A" ELSE "B",
     location |-> "X", observed_at |-> k, total_emissions |-> 100 * k]

\* A writer inserts one stamped row (upload_emissions_data, lines 17-24);
\* the store notifies the subscription when there is one.
InsertFrom(records) ==
    /\ \E r \in records :
         LET rows == StampUploaded(<<r>>, now)
         IN  /\ cloud_emissions' = cloud_emissions \o rows
             /\ channel' = IF subscription = "subscribed"
                           THEN channel \o Payloads(rows) ELSE channel
             /\ missed' = IF subscription \in {"down", "ended"}
                          THEN missed + 1 ELSE missed
    /\ now' = now + 1
    /\ UNCHANGED <<data, pc, provider_metrics, location_metrics, results,
                   failures, df, provider_emissions>>
    /\ UNCHANGED <<subscription, dispatch, handlers, axes, calls, printed,
                   redelivered>>
    /\ UNCHANGED <<alertVars, pollVars, collectorVars>>

InsertRecord ==
    /\ Len(cloud_emissions) < MaxInserts
    /\ InsertFrom(MonitorRecords)

InsertProviderRecord ==
    /\ Len(cloud_emissions) < MaxInserts
    /\ InsertFrom(ProviderRecords)

InsertFileRow ==
    /\ Len(cloud_emissions) < MaxInserts
    /\ InsertFrom({FileRow(Len(cloud_emissions) + 1)})

\* The channel hands over a message that has no 'new' entry.
DeliverMalformed ==
    /\ subscription = "subscribed"
    /\ MayFail
    /\ failures' = failures + 1
    /\ channel' = Append(channel, [old |-> <<>>])
    /\ UNCHANGED <<data, pc, cloud_emissions, provider_metrics, location_metrics,
                   results, now, df, provider_emissions>>
    /\ UNCHANGED <<subscription, dispatch, handlers, axes, calls, printed, missed,
                   redelivered>>
    /\ UNCHANGED <<alertVars, pollVars, collectorVars>>

\* start_realtime_monitoring, lines 42-52: subscribe, then sleep for ever;
\* an exception is printed and the function returns.
StartRealtimeMonitoring ==
    /\ subscription = "none"
    /\ \E ok \in BOOLEAN :
        /\ ok \/ MayFail
        /\ IF ok
           THEN /\ subscription' = "subscribed"
                /\ printed' = printed \cup {"Real-time monitoring started"}
                /\ failures' = failures
           ELSE /\ subscription' = "ended"
                /\ printed' = printed \cup {"Error in real-time monitoring"}
                /\ failures' = failures + 1
    /\ UNCHANGED <<data, pc, cloud_emissions, provider_metrics, location_metrics,
                   results, now, channel, df, provider_emissions>>
    /\ UNCHANGED <<dispatch, handlers, axes, calls, missed, redelivered>>
    /\ UNCHANGED <<alertVars, pollVars, collectorVars>>

\* The connection under the subscription is lost; the loop of lines 48-49
\* goes on sleeping.
Disconnect ==
    /\ subscription = "subscribed"
    /\ subscription' = "down"
    /\ UNCHANGED <<pipelineVars, alertVars, pollVars, collectorVars>>
    /\ UNCHANGED <<dispatch, handlers, axes, calls, printed, missed, redelivered>>

\* The realtime client underneath joins the channel again, where it does so
\* on its own; nothing of the monitor takes part.
Reconnect ==
    /\ subscription = "down"
    /\ subscription' = "subscribed"
    /\ UNCHANGED <<pipelineVars, alertVars, pollVars, collectorVars>>
    /\ UNCHANGED <<dispatch, handlers, axes, calls, printed, missed, redelivered>>

\* At-least-once delivery: a notification already handed to the handler
\* is put on the channel again.
RedeliverNotification ==
    /\ subscription = "subscribed"
    /\ redelivered < MaxRedeliveries
    /\ \E i \in DOMAIN calls : channel' = Append(channel, [new |-> calls[i]])
    /\ redelivered' = redelivered + 1
    /\ UNCHANGED <<data, pc, cloud_emissions, provider_metrics, location_metrics,
                   results, now, failures, df, provider_emissions>>
    /\ UNCHANGED <<subscription, dispatch, handlers, axes, calls, printed, missed>>
    /\ UNCHANGED <<alertVars, pollVars, collectorVars>>

Busy(h) == handlers[h].line # "idle"

\* The realtime client calls handle_broadcast (lines 27-37) with the next
\* notification: from its one listener loop, so not before the call before
\* has returned, or from a thread of its own for every message. A payload
\* without 'new' raises KeyError at line 30, which lines 39-40 catch.
CallHandleBroadcast ==
    /\ subscription = "subscribed"
    /\ channel # <<>>
    /\ \E h \in Slots :
        /\ ~Busy(h)
        /\ \A g \in Slots : g < h => Busy(g)
        /\ dispatch = "serial" => \A g \in Slots : ~Busy(g)
        /\ IF "new" \in DOMAIN Head(channel)
           THEN /\ handlers' = [handlers EXCEPT ![h] =
                                   [line |-> "clear",
                                    new_data |-> <<Head(channel).new>>,
                                    df |-> <<>>]]
                /\ calls' = Append(calls, Head(channel).new)
                /\ printed' = printed \cup {"New data received"}
           ELSE /\ printed' = printed \cup {"Error handling broadcast"}
                /\ UNCHANGED <<handlers, calls>>
    /\ channel' = Tail(channel)
    /\ UNCHANGED <<data, pc, cloud_emissions, provider_metrics, location_metrics,
                   results, now, failures, df, provider_emissions>>
    /\ UNCHANGED <<subscription, dispatch, axes, missed, redelivered>>
    /\ UNCHANGED <<alertVars, pollVars, collectorVars>>

\* What a step of a running handler leaves alone.
HandlerFrame ==
    /\ UNCHANGED <<data, pc, cloud_emissions, provider_metrics, location_metrics,
                   results, now, channel, df, provider_emissions>>
    /\ UNCHANGED <<subscription, dispatch, calls, missed, redelivered>>
    /\ UNCHANGED <<alertVars, pollVars, collectorVars>>

\* update_visualizations, lines 57-58: every axes is cleared.
ClearAxes ==
    /\ \E h \in Slots :
        /\ handlers[h].line = "clear"
        /\ handlers' = [handlers EXCEPT ![h].line = "select"]
    /\ axes' = ClearedAxes
    /\ UNCHANGED <<failures, printed>>
    /\ HandlerFrame

\* A select that lets its exception out of handle_broadcast: the
\* subscription's thread ends with it.
SelectEmissionsUncaught ==
    /\ \E h \in Slots :
        /\ handlers[h].line = "select"
        /\ \E outcome \in {"rows", "raises"} :
            /\ outcome = "rows" \/ MayFail
            /\ IF outcome = "rows"
               THEN /\ handlers' = [handlers EXCEPT ![h].line = "provider",
                                                    ![h].df = cloud_emissions]
                    /\ UNCHANGED <<failures, printed, subscription>>
               ELSE /\ handlers' = [handlers EXCEPT ![h] = Idle]
                    /\ printed' = printed \cup {"Error in real-time monitoring"}
                    /\ failures' = failures + 1
                    /\ subscription' = "ended"
    /\ UNCHANGED axes
    /\ UNCHANGED <<data, pc, cloud_emissions, provider_metrics, location_metrics,
                   results, now, channel, df, provider_emissions>>
    /\ UNCHANGED <<dispatch, calls, missed, redelivered>>
    /\ UNCHANGED <<alertVars, pollVars, collectorVars>>

\* Lines 61-62: the whole table is selected. The call may raise, which
\* handle_broadcast catches and prints (lines 39-40), or may not return.
SelectEmissions ==
    /\ \E h \in Slots :
        /\ handlers[h].line = "select"
        /\ \E outcome \in {"rows", "raises", "hangs"} :
            /\ outcome = "rows" \/ MayFail
            /\ CASE outcome = "rows" ->
                      /\ handlers' = [handlers EXCEPT ![h].line = "provider",
                                                      ![h].df = cloud_emissions]
                      /\ UNCHANGED <<failures, printed>>
                 [] outcome = "raises" ->
                      /\ handlers' = [handlers EXCEPT ![h] = Idle]
                      /\ printed' = printed \cup {"Error handling broadcast"}
                      /\ failures' = failures + 1
                 [] outcome = "hangs" ->
                      /\ handlers' = [handlers EXCEPT ![h].line = "hung"]
                      /\ failures' = failures + 1
                      /\ UNCHANGED printed
    /\ UNCHANGED axes
    /\ HandlerFrame

\* Lines 65-68: the bars of the providers' summed emissions are drawn on
\* axes[0,0]; grouping a frame without columns raises.
PlotProviderEmissions ==
    /\ \E h \in Slots :
        /\ handlers[h].line = "provider"
        /\ IF handlers[h].df = <<>>
           THEN /\ handlers' = [handlers EXCEPT ![h] = Idle]
                /\ printed' = printed \cup {"Error handling broadcast"}
                /\ UNCHANGED axes
           ELSE /\ handlers' = [handlers EXCEPT ![h].line = "trend"]
                /\ axes' = [axes EXCEPT !["provider"] =
                               Append(@, ProviderBars(handlers[h].df))]
                /\ UNCHANGED printed
    /\ UNCHANGED failures
    /\ HandlerFrame

\* A statement of lines 65-94 raises (a column the rows lack, a date that
\* does not parse): lines 39-40 catch it, print it, and the call returns
\* with the panels drawn so far.
PlotRaises ==
    /\ MayFail
    /\ \E h \in Slots :
        /\ handlers[h].line \in {"provider", "trend", "scatter"}
        /\ handlers' = [handlers EXCEPT ![h] = Idle]
    /\ printed' = printed \cup {"Error handling broadcast"}
    /\ failures' = failures + 1
    /\ UNCHANGED axes
    /\ HandlerFrame

\* Lines 71-74: the hourly mean is drawn on axes[0,1].
PlotTrend ==
    /\ \E h \in Slots :
        /\ handlers[h].line = "trend"
        /\ handlers' = [handlers EXCEPT ![h].line = "scatter"]
        /\ axes' = [axes EXCEPT !["trend"] = Append(@, TrendLine(handlers[h].df))]
    /\ UNCHANGED <<failures, printed>>
    /\ HandlerFrame

\* Lines 77-94: the two scatter plots are drawn, the figure is shown and
\* handle_broadcast returns.
PlotScatters ==
    /\ \E h \in Slots :
        /\ handlers[h].line = "scatter"
        /\ handlers' = [handlers EXCEPT ![h] = Idle]
        /\ axes' = [axes EXCEPT
                       !["workload"] = Append(@, ScatterPoints(handlers[h].df)),
                       !["renewable"] = Append(@, ScatterPoints(handlers[h].df))]
    /\ UNCHANGED <<failures, printed>>
    /\ HandlerFrame

\* ------------------------------------------------ the relay, C14 .. C20
\* C14: while every stored row has a composite key of its own, no two calls
\* of update_visualizations are made for the same key, however often the
\* channel delivers its notification.
C14_RelayDeduplication ==
    DistinctKeys(cloud_emissions) =>
        \A i, j \in DOMAIN calls : Key(calls[i]) = Key(calls[j]) => i = j

\* C15: whenever the subscription is lost, through a failed subscribe or a
\* lost connection, the monitor is subscribed again later on.
C15_Reconnection ==
    (subscription \in {"down", "ended"}) ~> (subscription = "subscribed")

\* C16: once the subscription is back after an outage during which rows
\* were inserted, or the monitor has returned for good with rows inserted
\* since, the monitor has emitted a gap_detected event.
C16_GapReporting ==
    (subscription \in {"subscribed", "ended"} /\ missed > 0) =>
        "gap_detected" \in printed

\* A call of handle_broadcast whose update_visualizations does not return.
Hung == { h \in Slots : handlers[h].line = "hung" }

\* C17: while an update does not return, a notification waiting on the
\* subscribed channel can still be handed to handle_broadcast (as long as
\* the calls under way are fewer than MaxHandlers).
C17_SlowObserverDoesNotBlock ==
    (/\ Hung # {}
     /\ \E h \in Slots : ~Busy(h)
     /\ channel # <<>>
     /\ subscription = "subscribed") => ENABLED CallHandleBroadcast

\* The figure one run of update_visualizations draws, alone, from the rows
\* its select returned.
DrawnFrom(rows) ==
    [ p \in Panels |->
        CASE p = "provider" -> << ProviderBars(rows) >>
          [] p = "trend" -> << TrendLine(rows) >>
          [] OTHER -> << ScatterPoints(rows) >> ]

\* The table as it was after each insert so far.
TableStates == { SubSeq(cloud_emissions, 1, k) : k \in 1..Len(cloud_emissions) }

\* No call of handle_broadcast is under way.
Quiescent == \A h \in Slots : ~Busy(h)

\* C18: when the calls of handle_broadcast made so far have all returned,
\* the figure is what one of them leaves when run alone after the others:
\* cleared (its select raised), or every panel drawn once from one state
\* of the table.
C18_MutationSerialization ==
    (Quiescent /\ calls # <<>>) =>
        \/ axes = ClearedAxes
        \/ \E rows \in TableStates : axes = DrawnFrom(rows)

\* ------------------------------------------- dashboard.py, the polling loop
\* The format '.1f' / '+.1f' of num/den: one decimal, in tenths, ties to even.
Format1(num, den) ==
    LET scaled == 10 * num
        q == scaled \div den
        r == scaled % den
    IN  IF 2 * r > den \/ (2 * r = den /\ q % 2 = 1) THEN q + 1 ELSE q

\* Lines 26-30: the total and the mean of the row-to-row differences; the
\* nan of a single row is the empty sequence here.
TotalEmissionsMetric(rows) ==
    [ value |-> SumEmissions(rows),
      delta |-> IF Len(rows) < 2 THEN << >>
                ELSE << Format1(rows[Len(rows)].total_emissions - rows[1].total_emissions,
                                Len(rows) - 1) >> ]

\* Lines 51-60: the line of emissions over uploaded_at, the bars of the
\* providers' sums and the scatter of the rows.
Charts(rows) ==
    [ line |-> [ i \in DOMAIN rows |-> <<rows[i].uploaded_at, rows[i].total_emissions>> ],
      bar |-> GroupSum(rows, "cloud_service_provider"),
      scatter |-> ScatterPoints(rows) ]

PollFrame ==
    /\ UNCHANGED <<data, pc, cloud_emissions, provider_metrics, location_metrics,
                   results, now, channel, df, provider_emissions>>
    /\ UNCHANGED <<alertVars, collectorVars, monitorVars>>

\* Lines 18-19: the latest data is selected; an exception of the select
\* leaves create_dashboard.
PollSelect ==
    /\ poll = "select"
    /\ \E ok \in BOOLEAN :
        /\ ok \/ MayFail
        /\ IF ok
           THEN /\ poll_df' = cloud_emissions
                /\ poll' = "metrics"
                /\ failures' = failures
           ELSE /\ poll' = "crashed"
                /\ failures' = failures + 1
                /\ UNCHANGED poll_df
    /\ UNCHANGED <<metrics_placeholder, chart_placeholder>>
    /\ PollFrame

\* Lines 21-44: the metrics container is filled; a frame without columns
\* has no 'total_emissions' and the KeyError leaves create_dashboard.
RenderMetrics ==
    /\ poll = "metrics"
    /\ IF poll_df = <<>>
       THEN /\ poll' = "crashed"
            /\ UNCHANGED metrics_placeholder
       ELSE /\ poll' = "charts"
            /\ metrics_placeholder' = << TotalEmissionsMetric(poll_df) >>
    /\ UNCHANGED <<failures, poll_df, chart_placeholder>>
    /\ PollFrame

\* Lines 46-62: the chart container is filled, then the loop sleeps and
\* starts over.
RenderCharts ==
    /\ poll = "charts"
    /\ chart_placeholder' = << Charts(poll_df) >>
    /\ poll' = "select"
    /\ UNCHANGED <<failures, poll_df, metrics_placeholder>>
    /\ PollFrame

\* C19: whenever the dashboard is looked at after its first pass, its two
\* containers are filled from one and the same state of the table; never
\* does one show the new rows while the other shows older rows.
C19_AtomicReads ==
    \/ chart_placeholder = <<>>
    \/ \E rows \in TableStates :
          /\ metrics_placeholder = << TotalEmissionsMetric(rows) >>
          /\ chart_placeholder = << Charts(rows) >>

\* A row inside the declared range of its emissions.
ValidRecord(r) == r.total_emissions >= 0

ValidRows(rows) == SelectSeq(rows, ValidRecord)

\* C20: the bars the monitor draws are the providers' sums over the valid
\* rows of the table only, and no call of handle_broadcast ends the
\* subscription.
C20_InvalidRecordExcluded ==
    /\ \A i \in DOMAIN axes["provider"] :
          \E rows \in TableStates : axes["provider"][i] = ProviderBars(ValidRows(rows))
    /\ calls # <<>> => subscription # "ended"

\* ----------------------------------------------- collector, C21 .. C28
\* A frame without the time its rows were stamped with.
Untimed(frame) ==
    [ i \in DOMAIN frame |->
        [provider |-> frame[i].provider,
         energy_consumption |-> frame[i].energy_consumption,
         carbon_emissions |-> frame[i].carbon_emissions,
         data_transfer |-> frame[i].data_transfer] ]

\* What the caller of collect_cloud_data holds once the call is over.
Outcome(exc, frame) == [exc |-> exc, df |-> Untimed(frame)]

\* The same for the answers resp, computed in one go.
OutcomeFor(resp) ==
    LET r == CollectFrom(1, resp, json_error_caught, <<>>)
    IN  Outcome(r.exc, r.df)

\* C21: no call of the collector waits for ever, and what a returned batch
\* gives for a source that timed out differs from what it would give had
\* the connection to that source failed.
C21_TimeoutDistinct ==
    /\ cpc # "hung"
    /\ cpc = "done" =>
         \A s \in SourceSet : responses[s].kind = "timeout" =>
            OutcomeFor([responses EXCEPT ![s] = [kind |-> "connection_error"]])
                # Outcome(escaped, combined_df)

Column(rec, m) ==
    CASE m = "energy" -> rec.energy_consumption
      [] m = "carbon" -> rec.carbon_emissions
      [] m = "network" -> rec.data_transfer

\* The source has been asked and its collect_*_data call has returned.
Normalized(s) ==
    /\ requests[s] > 0
    /\ cpc \notin {s, "raised", "hung"}

\* C23: a payload is normalized to one record in which a metric the payload
\* carries has the payload's value and a metric it lacks is 0.
C23_Defaults ==
    \A s \in SourceSet :
        (Normalized(s) /\ responses[s].kind = "json"
                       /\ responses[s].body.type = "object") =>
            /\ Len(provider_data[s]) = 1
            /\ \A m \in Metrics :
                  Column(provider_data[s][1], m) =
                      IF m \in DOMAIN responses[s].body.fields
                      THEN responses[s].body.fields[m] ELSE 0

\* ------------------------------------------------- the monitor, C24, C25
\* A step in which a call of handle_broadcast ends by an exception: a
\* running call returns without having drawn the last panels, or the
\* payload taken from the channel has no 'new'.
HandlerRaises ==
    \/ \E h \in Slots :
          /\ handlers[h].line \in {"select", "provider", "trend", "scatter"}
          /\ handlers'[h] = Idle
          /\ axes' = axes
    \/ /\ channel # <<>>
       /\ "new" \notin DOMAIN Head(channel)
       /\ channel' = Tail(channel)

\* C24: an exception raised while a notification is handled (no 'new' in
\* the payload, a failing select, a failing plot) is caught and printed by
\* handle_broadcast and leaves the subscription as it was; and whenever a
\* notification waits on the subscribed channel and no call is under way,
\* handle_broadcast can be called with it.
C24_FaultContainment ==
    /\ [][ HandlerRaises =>
             /\ subscription' = subscription
             /\ "Error handling broadcast" \in printed'
             /\ "Error in real-time monitoring" \notin printed' ]_vars
    /\ []( (subscription = "subscribed" /\ channel # <<>> /\ Quiescent)
              => ENABLED CallHandleBroadcast )

\* A call has failed and the call after it has drawn the whole figure.
C24_Witness ==
    /\ dispatch = "serial"
    /\ "Error handling broadcast" \in printed
    /\ failures = 1
    /\ Len(calls) = 2
    /\ Quiescent
    /\ axes = DrawnFrom(cloud_emissions)

\* The emissions of provider p summed over the first k rows.
RECURSIVE TotalUpTo(_, _, _)
TotalUpTo(rows, p, k) ==
    IF k = 0 THEN 0
    ELSE TotalUpTo(rows, p, k - 1)
            + (IF rows[k].cloud_service_provider = p
               THEN rows[k].total_emissions ELSE 0)

\* Per provider that has a row, the sum of its rows' emissions.
StoreTotals(rows) ==
    [ p \in { rows[i].cloud_service_provider : i \in DOMAIN rows } |->
        TotalUpTo(rows, p, Len(rows)) ]

\* C25: a call of handle_broadcast selects the whole table as it is at that
\* moment, the bars it draws are the per-provider sums over exactly those
\* rows, and when it returns after drawing (calls not overlapping) the
\* provider panel holds those sums and nothing else, however many
\* notifications were lost or delivered twice before.
C25_RecomputeFromStore ==
    [][ \A h \in Slots :
          /\ (handlers[h].line = "select" /\ handlers'[h].line = "provider")
                => handlers'[h].df = cloud_emissions
          /\ (handlers[h].line = "provider" /\ handlers'[h].line = "trend")
                => axes'["provider"][Len(axes'["provider"])]
                      = StoreTotals(handlers[h].df)
          /\ (handlers[h].line = "scatter" /\ handlers'[h] = Idle
                 /\ axes' # axes /\ dispatch = "serial")
                => axes'["provider"] = << StoreTotals(handlers[h].df) >> ]_vars

\* A notification was lost, another came twice, and the panel shows the sum
\* of both rows of one provider.
C25_Witness ==
    /\ Quiescent
    /\ missed > 0
    /\ redelivered > 0
    /\ Len(cloud_emissions) = 2
    /\ cloud_emissions[1].cloud_service_provider = cloud_emissions[2].cloud_service_provider
    /\ axes["provider"] = << StoreTotals(cloud_emissions) >>
    /\ StoreTotals(cloud_emissions)[cloud_emissions[1].cloud_service_provider]
          = cloud_emissions[1].total_emissions + cloud_emissions[2].total_emissions

\* ------------------------------------------------------- uploads, C27
\* The upload main is at, the upload after it, and the table it writes.
Uploads == {"emissions", "provider", "location"}

After(u) ==
    CASE u = "emissions" -> "provider"
      [] u = "provider" -> "location"
      [] u = "location" -> "done"

\* C27: a step of main is one upload, which makes one insert attempt: either
\* the batch is in its table once, no failure is counted and the result is
\* returned, or the attempt is counted as failed once, no table has changed
\* and None is returned; in both cases main goes on to the upload after it.
C27_UploadFailureIsolation ==
    [][ (pc \in Uploads /\ pc' # pc) =>
          LET returned == results'[Len(results')]
              stored ==
                CASE pc = "emissions" ->
                        cloud_emissions' = cloud_emissions \o StampUploaded(data, now)
                  [] pc = "provider" ->
                        provider_metrics' =
                            provider_metrics \cup ProviderMetricRecords(data, now)
                  [] pc = "location" ->
                        location_metrics' =
                            location_metrics \cup LocationMetricRecords(data, now)
              untouched ==
                /\ cloud_emissions' = cloud_emissions
                /\ provider_metrics' = provider_metrics
                /\ location_metrics' = location_metrics
          IN  /\ pc' = After(pc)
              /\ Len(results') = (IF pc = "emissions" THEN 0 ELSE Len(results)) + 1
              /\ \/ returned = "result" /\ stored /\ failures' = failures
                 \/ returned = "None" /\ untouched /\ failures' = failures + 1 ]_vars

\* The first upload of a run failed and the two after it went through.
C27_Witness ==
    /\ pc = "done"
    /\ results = <<"None", "result", "result">>
    /\ cloud_emissions = <<>>
    /\ provider_metrics # {}
    /\ location_metrics # {}

\* The sources whose request came back with a body: status 200 and JSON.
Succeeded(s) == responses[s].kind = "json"

\* The providers of the rows of a frame, in the order of the rows.
ProviderOrder(frame) == [ i \in DOMAIN frame |-> frame[i].provider ]

\* C26: collect_cloud_data returns one row for every provider whose request
\* succeeded and none for the others, in the order GCP, AWS, Azure; a
\* provider that answered with the empty object has its row, all zeros.
C26_RowPerSuccess ==
    cpc = "done" =>
        /\ ProviderOrder(combined_df) = SelectSeq(Sources, Succeeded)
        /\ \A i \in DOMAIN combined_df :
              LET s == combined_df[i].provider
              IN  (responses[s].body.type = "object"
                      /\ DOMAIN responses[s].body.fields = {})
                  => \A m \in Metrics : Column(combined_df[i], m) = 0

\* The sources whose collect_*_data call has handed back a row.
Contributed == { s \in SourceSet : provider_data[s] # <<>> }

\* C28: once a call of collect_cloud_data is over, the raw-data directory
\* holds one file with exactly the rows of the providers that contributed
\* one, when some provider did, and is as it was before (empty), when none
\* did.
C28_RawFileIffRows ==
    Finished =>
        IF Contributed = {}
        THEN raw_dir = {}
        ELSE /\ Cardinality(raw_dir) = 1
             /\ \A f \in raw_dir :
                   /\ f.rows = Concat(provider_data)
                   /\ f.rows = combined_df

\* ------------------------------------------------------ alerts, C29, C30
\* The place of a level in the list check_alerts returns.
LevelRank(l) ==
    CASE l = "critical" -> 1
      [] l = "warning" -> 2
      [] l = "info" -> 3

Notice == << "All systems operating within normal parameters" >>

NonNegative(t) == \A i \in DOMAIN t : t[i].total_emissions >= 0

\* Every facility of the table has the same emissions.
AllEqual(t) == \A i, j \in DOMAIN t : t[i].total_emissions = t[j].total_emissions

\* The critical alerts of the last run.
Critical == { alerts[i] : i \in { j \in DOMAIN alerts : alerts[j].level = "critical" } }

PipelineInit ==
    /\ pc = "emissions"
    /\ cloud_emissions = <<>>
    /\ provider_metrics = {}
    /\ location_metrics = {}
    /\ results = <<>>
    /\ now = 1
    /\ failures = 0
    /\ channel = <<>>
    /\ df = <<>>
    /\ provider_emissions = NoBars

AlertInit ==
    /\ df_filtered = <<>>
    /\ alerts = <<>>
    /\ sidebar = <<>>
    /\ evaluations = 0
    /\ raised = [ r \in FixedRules |-> 0 ]
    /\ crossings = [ r \in FixedRules |-> 0 ]

\* RealtimeEmissionMonitor.__init__: nothing subscribed, nothing drawn.
MonitorInit ==
    /\ handlers = [ h \in Slots |-> Idle ]
    /\ axes = ClearedAxes
    /\ calls = <<>>
    /\ printed = {}
    /\ missed = 0
    /\ redelivered = 0

\* The monitor as the other programs meet it: subscribed, its callback
\* called from the one listener loop.
MonitorSubscribed ==
    /\ MonitorInit
    /\ subscription = "subscribed"
    /\ dispatch = "serial"

\* dashboard.create_dashboard, lines 7-14: two empty placeholders.
PollInit ==
    /\ poll = "select"
    /\ poll_df = <<>>
    /\ metrics_placeholder = <<>>
    /\ chart_placeholder = <<>>

CollectorInit ==
    /\ cpc = "GCP"
    /\ provider_data = [ s \in SourceSet |-> <<>> ]
    /\ combined_df = <<>>
    /\ escaped = "none"
    /\ requests = [ s \in SourceSet |-> 0 ]
    /\ raw_dir = {}
    /\ clock = 1
    /\ sent_headers = [ s \in SourceSet |-> <<>> ]
    /\ invocations = 1

\* The three programs start from the same construction; each specification
\* draws the inputs of the program it runs.
Init ==
    /\ data \in DataFrames
    /\ PipelineInit /\ AlertInit /\ CollectorInit /\ MonitorSubscribed /\ PollInit
    /\ responses = [ s \in SourceSet |-> [kind |-> "timeout"] ]
    /\ json_error_caught = TRUE
    /\ api_key = [ s \in SourceSet |-> "secret" ]

Next ==
    \/ UploadEmissionsData
    \/ UploadProviderMetrics
    \/ UploadLocationMetrics
    \/ RunMain
    \/ HandleBroadcast
    \/ Redeliver

Spec == Init /\ [][Next]_vars

\* The dashboard script, rerun over the tables it is given.
InitAlerts ==
    /\ data = << CHOOSE r \in RecordSpace : TRUE >>
    /\ PipelineInit /\ AlertInit /\ CollectorInit /\ MonitorSubscribed /\ PollInit
    /\ responses = [ s \in SourceSet |-> [kind |-> "timeout"] ]
    /\ json_error_caught = TRUE
    /\ api_key = [ s \in SourceSet |-> "secret" ]

NextAlerts == CreateDashboard

SpecAlerts == InitAlerts /\ [][NextAlerts]_vars

\* One batch of collect_cloud_data against the providers' answers.
InitCollector ==
    /\ data = << CHOOSE r \in RecordSpace : TRUE >>
    /\ PipelineInit /\ AlertInit /\ CollectorInit /\ MonitorSubscribed /\ PollInit
    /\ responses \in [ SourceSet -> Responses ]
    /\ json_error_caught \in BOOLEAN
    /\ api_key = [ s \in SourceSet |-> "secret" ]

NextCollector ==
    \/ CollectGcpData
    \/ CollectAwsData
    \/ CollectAzureData
    \/ CollectCloudData

SpecCollector == InitCollector /\ [][NextCollector]_vars

\* One batch of collect_cloud_data under every configuration of the three
\* API keys, each provider either rejecting the request or answering with
\* its metrics.
CredentialResponses ==
    { [kind |-> "http_error", status |-> 401],
      [kind |-> "json", body |-> [type |-> "object", fields |-> [ m \in Metrics |-> 7 ]]] }

InitCredentials ==
    /\ data = << CHOOSE r \in RecordSpace : TRUE >>
    /\ PipelineInit /\ AlertInit /\ CollectorInit /\ MonitorSubscribed /\ PollInit
    /\ responses \in [ SourceSet -> CredentialResponses ]
    /\ json_error_caught = TRUE
    /\ api_key \in [ SourceSet -> KeyValues ]

SpecCredentials == InitCredentials /\ [][NextCollector]_vars

\* One batch of collect_cloud_data against payloads whose metrics are
\* inside or outside their ranges.
PayloadValues == {-5, 7}

PayloadResponses ==
    { [kind |-> "timeout"] }
    \cup { [kind |-> "json", body |-> [type |-> "object", fields |-> f]] :
             f \in [ Metrics -> PayloadValues ] }

InitPayloads ==
    /\ data = << CHOOSE r \in RecordSpace : TRUE >>
    /\ PipelineInit /\ AlertInit /\ CollectorInit /\ MonitorSubscribed /\ PollInit
    /\ responses \in [ SourceSet -> PayloadResponses ]
    /\ json_error_caught = TRUE
    /\ api_key = [ s \in SourceSet |-> "secret" ]

SpecPayloads == InitPayloads /\ [][NextCollector]_vars

\* The realtime monitor with its subscription, statement by statement,
\* next to a writer of the table. The monitor's own statements are taken
\* whenever they can be; the writer, the connection and the channel are not
\* obliged to do anything.
InitMonitor ==
    /\ data = << CHOOSE r \in RecordSpace : TRUE >>
    /\ PipelineInit /\ AlertInit /\ CollectorInit /\ MonitorInit /\ PollInit
    /\ responses = [ s \in SourceSet |-> [kind |-> "timeout"] ]
    /\ json_error_caught = TRUE
    /\ api_key = [ s \in SourceSet |-> "secret" ]
    /\ subscription = "none"
    /\ dispatch \in {"serial", "threaded"}

MonitorStep ==
    \/ StartRealtimeMonitoring
    \/ CallHandleBroadcast
    \/ ClearAxes
    \/ SelectEmissions
    \/ PlotProviderEmissions
    \/ PlotTrend
    \/ PlotScatters

NextMonitor ==
    \/ InsertRecord
    \/ StartRealtimeMonitoring
    \/ Disconnect
    \/ Reconnect
    \/ RedeliverNotification
    \/ CallHandleBroadcast
    \/ ClearAxes
    \/ SelectEmissions
    \/ PlotProviderEmissions
    \/ PlotTrend
    \/ PlotScatters

SpecMonitor == InitMonitor /\ [][NextMonitor]_vars /\ WF_vars(MonitorStep)

\* The polling dashboard next to a writer of the table.
InitPolling ==
    /\ data = << CHOOSE r \in RecordSpace : TRUE >>
    /\ PipelineInit /\ AlertInit /\ CollectorInit /\ MonitorInit /\ PollInit
    /\ responses = [ s \in SourceSet |-> [kind |-> "timeout"] ]
    /\ json_error_caught = TRUE
    /\ api_key = [ s \in SourceSet |-> "secret" ]
    /\ subscription = "none"
    /\ dispatch = "serial"

NextPolling ==
    \/ InsertRecord
    \/ PollSelect
    \/ RenderMetrics
    \/ RenderCharts

SpecPolling == InitPolling /\ [][NextPolling]_vars

\* One batch of collect_cloud_data against servers that answer, fail, or
\* stay silent.
TimeoutResponses ==
    { [kind |-> "timeout"], [kind |-> "connection_error"], [kind |-> "no_response"],
      [kind |-> "json", body |-> [type |-> "object", fields |-> [ m \in Metrics |-> 7 ]]] }

InitTimeouts ==
    /\ data = << CHOOSE r \in RecordSpace : TRUE >>
    /\ PipelineInit /\ AlertInit /\ CollectorInit /\ MonitorSubscribed /\ PollInit
    /\ responses \in [ SourceSet -> TimeoutResponses ]
    /\ json_error_caught = TRUE
    /\ api_key = [ s \in SourceSet |-> "secret" ]

SpecTimeouts == InitTimeouts /\ [][NextCollector]_vars

\* collect_cloud_data called again and again.
InitRestart ==
    /\ data = << CHOOSE r \in RecordSpace : TRUE >>
    /\ PipelineInit /\ AlertInit /\ CollectorInit /\ MonitorSubscribed /\ PollInit
    /\ responses \in [ SourceSet -> RestartResponses ]
    /\ json_error_caught = TRUE
    /\ api_key = [ s \in SourceSet |-> "secret" ]

NextRestart == NextCollector \/ CallCollectCloudData

SpecRestart == InitRestart /\ [][NextRestart]_vars

\* The monitor, subscribed, with handlers that fail.
InitFaults ==
    /\ data = << CHOOSE r \in RecordSpace : TRUE >>
    /\ PipelineInit /\ AlertInit /\ CollectorInit /\ MonitorInit /\ PollInit
    /\ responses = [ s \in SourceSet |-> [kind |-> "timeout"] ]
    /\ json_error_caught = TRUE
    /\ api_key = [ s \in SourceSet |-> "secret" ]
    /\ subscription = "subscribed"
    /\ dispatch \in {"serial", "threaded"}

NextFaults ==
    \/ InsertFileRow
    \/ DeliverMalformed
    \/ CallHandleBroadcast
    \/ ClearAxes
    \/ SelectEmissions
    \/ PlotProviderEmissions
    \/ PlotRaises
    \/ PlotTrend
    \/ PlotScatters

SpecFaults == InitFaults /\ [][NextFaults]_vars

\* The monitor, subscribed, its handler called for one notification at a
\* time, with notifications lost and delivered twice.
InitRecompute == InitFaults /\ dispatch = "serial"

NextRecompute ==
    \/ InsertProviderRecord
    \/ Disconnect
    \/ Reconnect
    \/ RedeliverNotification
    \/ CallHandleBroadcast
    \/ ClearAxes
    \/ SelectEmissions
    \/ PlotProviderEmissions
    \/ PlotRaises
    \/ PlotTrend
    \/ PlotScatters

SpecRecompute == InitRecompute /\ [][NextRecompute]_vars
====
